---- MODULE Spec2Model ----
(***************************************************************************)
(* Model of src/ufc/scraper/scrape_odds_alt.py (class OddsScraperAlt and   *)
(* its command-line driver).                                               *)
(*                                                                         *)
(* Python values are represented as follows.                               *)
(*   str            a TLA+ string (Len, SubSeq and \o act on characters)   *)
(*   float odds     an integer number of hundredths (1.85 is 185)          *)
(*   JSON null      the integer null (-1), only ever stored as a price     *)
(*   dict           a record; an absent key is an absent field             *)
(*   None           [tag |-> "None"]                                       *)
(*   DataFrame      [tag |-> "DataFrame", columns |-> <<...>>,             *)
(*                   rows |-> <<record over the columns, ...>>]            *)
(***************************************************************************)
EXTENDS Integers, Sequences, FiniteSets, TLC

VARIABLES test, odds_api_key, curr_time, event_links, event_odds,
          csv_file, calls, pc, inp, out

vars == <<test, odds_api_key, curr_time, event_links, event_odds,
          csv_file, calls, pc, inp, out>>

-----------------------------------------------------------------------------
(* Python values *)

None == [tag |-> "None"]

IsNone(x) == x.tag = "None"

Str(s) == [tag |-> "str", s |-> s]

DataFrame(cols, rws) == [tag |-> "DataFrame", columns |-> cols, rows |-> rws]

null == -1

Min(a, b) == IF a < b THEN a ELSE b

SeqsUpTo(S, n) == UNION {[1..k -> S] : k \in 0..n}

RECURSIVE Flatten(_)
Flatten(ss) == IF ss = <<>> THEN <<>> ELSE Head(ss) \o Flatten(Tail(ss))

-----------------------------------------------------------------------------
(* str operations *)

Digits == {"0", "1", "2", "3", "4", "5", "6", "7", "8", "9"}

CharAt(s, i) == SubSeq(s, i, i)

DigitVal(c) ==
    CASE c = "0" -> 0 [] c = "1" -> 1 [] c = "2" -> 2 [] c = "3" -> 3
      [] c = "4" -> 4 [] c = "5" -> 5 [] c = "6" -> 6 [] c = "7" -> 7
      [] c = "8" -> 8 [] c = "9" -> 9

IntToStr(n) ==
    CASE n = 0 -> "0" [] n = 1 -> "1" [] n = 2 -> "2" [] n = 3 -> "3"
      [] n = 4 -> "4" [] n = 5 -> "5" [] n = 6 -> "6" [] n = 7 -> "7"
      [] n = 8 -> "8" [] n = 9 -> "9" [] n = 10 -> "10" [] n = 11 -> "11"

SliceTo(s, n) == SubSeq(s, 1, Min(n, Len(s)))

StartsWith(s, prefix) ==
    /\ Len(s) >= Len(prefix)
    /\ SubSeq(s, 1, Len(prefix)) = prefix

LowerChar(c) ==
    CASE c = "U" -> "u" [] c = "F" -> "f" [] c = "C" -> "c" [] OTHER -> c

ContainsUfcLower(s) ==
    \E i \in 1..(Len(s) - 2) :
        /\ LowerChar(CharAt(s, i)) = "u"
        /\ LowerChar(CharAt(s, i + 1)) = "f"
        /\ LowerChar(CharAt(s, i + 2)) = "c"

AllDigits(s, a, b) == \A k \in a..b : CharAt(s, k) \in Digits

RECURSIVE DigitsToInt(_, _, _)
DigitsToInt(s, a, b) ==
    IF a > b THEN 0 ELSE DigitsToInt(s, a, b - 1) * 10 + DigitVal(CharAt(s, b))

(* re.match(r'^\d+\.\d+$', text) *)
IsDecimalText(s) ==
    \E p \in 2..(Len(s) - 1) :
        /\ CharAt(s, p) = "."
        /\ AllDigits(s, 1, p - 1)
        /\ AllDigits(s, p + 1, Len(s))

(* float(text) of a text matching the decimal pattern, in hundredths;
   digits after the second decimal place are not represented *)
ToFloat(s) ==
    LET p == CHOOSE q \in 2..(Len(s) - 1) : CharAt(s, q) = "."
        whole == DigitsToInt(s, 1, p - 1)
        d1 == DigitVal(CharAt(s, p + 1))
        d2 == IF Len(s) >= p + 2 THEN DigitVal(CharAt(s, p + 2)) ELSE 0
    IN  whole * 100 + d1 * 10 + d2

(* dict.get(key, default) *)
Get(d, k, default) == IF k \in DOMAIN d THEN d[k] ELSE default

-----------------------------------------------------------------------------
(* _scrape_from_odds_api *)

DefaultOdds == 100

H2HKey == "h2h"

ApiColumns == <<"link", "date", "event", "fighter1", "fighter2",
                "fighter1_odds", "fighter2_odds", "result">>

HasBookmakers(event) ==
    /\ "bookmakers" \in DOMAIN event
    /\ event.bookmakers # <<>>

(* variant: the last listed bookmaker is used *)
FirstBookmaker_Last(bookmakers) == bookmakers[Len(bookmakers)]

FirstBookmaker(bookmakers) == bookmakers[1]

MarketQualifies(market) ==
    /\ "key" \in DOMAIN market
    /\ market.key = H2HKey
    /\ Len(Get(market, "outcomes", <<>>)) >= 2

ApiRecord(event, market) ==
    LET outcomes == market.outcomes
        commence_time == Get(event, "commence_time", "")
    IN  [link |-> "odds_api_" \o Get(event, "id", ""),
         date |-> IF commence_time # "" THEN SliceTo(commence_time, 10) ELSE "",
         event |-> Get(event, "sport_title", "UFC Event"),
         fighter1 |-> Get(outcomes[1], "name", ""),
         fighter2 |-> Get(outcomes[2], "name", ""),
         fighter1_odds |-> Get(outcomes[1], "price", DefaultOdds),
         fighter2_odds |-> Get(outcomes[2], "price", DefaultOdds),
         result |-> ""]

ApiEventRecords(event) ==
    IF HasBookmakers(event)
    THEN LET bookmaker == FirstBookmaker(event.bookmakers)
             markets == Get(bookmaker, "markets", <<>>)
             hits == SelectSeq(markets, MarketQualifies)
         IN  [k \in 1..Len(hits) |-> ApiRecord(event, hits[k])]
    ELSE <<>>

(* resp.ok = FALSE: requests.get, raise_for_status or response.json raised *)
ScrapeFromOddsApi(resp) ==
    IF ~resp.ok
    THEN None
    ELSE LET results ==
                 Flatten([k \in 1..Len(resp.data) |-> ApiEventRecords(resp.data[k])])
         IN  IF results # <<>> THEN DataFrame(ApiColumns, results) ELSE None

-----------------------------------------------------------------------------
(* _scrape_oddsshark_event *)

PageColumns == <<"event", "fighter1", "fighter2",
                 "fighter1_odds", "fighter2_odds", "result">>

Fight(ev, f1, f2, o1, o2) ==
    [event |-> ev, fighter1 |-> f1, fighter2 |-> f2,
     fighter1_odds |-> o1, fighter2_odds |-> o2, result |-> ""]

sample_fights ==
    << Fight("UFC 304: Edwards vs Muhammad 2",
             "Leon Edwards", "Belal Muhammad", 185, 195),
       Fight("UFC 304: Edwards vs Muhammad 2",
             "Tom Aspinall", "Curtis Blaydes", 145, 275),
       Fight("UFC Fight Night: Sandhagen vs Nurmagomedov",
             "Cory Sandhagen", "Umar Nurmagomedov", 210, 175),
       Fight("UFC Fight Night: Sandhagen vs Nurmagomedov",
             "Shara Magomedov", "Michal Oleksiejczuk", 165, 225) >>

ScrapeOddssharkEvent == DataFrame(PageColumns, sample_fights)

-----------------------------------------------------------------------------
(* _scrape_event_odds_page *)

SyntheticPrefix == "oddsshark_"

(* the loop over odds_cells, from cell k on, with the two locals *)
RECURSIVE ScanOddsCells(_, _, _, _)
ScanOddsCells(cells, k, fighter1_odds, fighter2_odds) ==
    IF k > Len(cells)
    THEN <<fighter1_odds, fighter2_odds>>
    ELSE IF IsDecimalText(cells[k])
         THEN LET odds_val == ToFloat(cells[k])
              IN  IF fighter1_odds = DefaultOdds
                  THEN ScanOddsCells(cells, k + 1, odds_val, fighter2_odds)
                  ELSE IF fighter2_odds = DefaultOdds
                       THEN <<fighter1_odds, odds_val>>
                       ELSE ScanOddsCells(cells, k + 1, fighter1_odds, fighter2_odds)
         ELSE ScanOddsCells(cells, k + 1, fighter1_odds, fighter2_odds)

RowOdds(cells) == ScanOddsCells(cells, 1, DefaultOdds, DefaultOdds)

PageTitle(soup) == IF soup.h1 # <<>> THEN soup.h1[1] ELSE "UFC Event"

(* a row is [links |-> texts of the anchors to fighter paths,
             cells |-> texts of the td cells] *)
RowHasFighters(row) == Len(row.links) >= 2

RowFight(soup, row) ==
    LET odds == RowOdds(row.cells)
    IN  Fight(PageTitle(soup), row.links[1], row.links[2], odds[1], odds[2])

FightRows(soup) == IF soup.tr # <<>> THEN soup.tr ELSE soup.div

(* resp.ok = FALSE: requests.get or raise_for_status raised;
   the result carries whether a network fetch was issued *)
ScrapeEventOddsPage(url, resp) ==
    IF StartsWith(url, SyntheticPrefix)
    THEN [ret |-> ScrapeOddssharkEvent, fetched |-> FALSE]
    ELSE IF ~resp.ok
         THEN [ret |-> None, fetched |-> TRUE]
         ELSE LET hits == SelectSeq(FightRows(resp.soup), RowHasFighters)
                  fights == [k \in 1..Len(hits) |-> RowFight(resp.soup, hits[k])]
              IN  [ret |-> IF fights # <<>> THEN DataFrame(PageColumns, fights)
                                            ELSE None,
                   fetched |-> TRUE]

-----------------------------------------------------------------------------
(* pandas operations used by the scraper *)

NaN == -2

Range(s) == {s[k] : k \in 1..Len(s)}

(* df[col] = value *)
SetColumn(df, col, value) ==
    DataFrame(IF col \in Range(df.columns) THEN df.columns
                                            ELSE Append(df.columns, col),
              [k \in 1..Len(df.rows) |->
                  [c \in DOMAIN df.rows[k] \cup {col} |->
                      IF c = col THEN value ELSE df.rows[k][c]]])

(* columns of the frames in order of first appearance *)
RECURSIVE UnionColumns(_, _)
UnionColumns(frames, acc) ==
    IF frames = <<>>
    THEN acc
    ELSE UnionColumns(Tail(frames),
                      acc \o SelectSeq(Head(frames).columns,
                                       LAMBDA c : c \notin Range(acc)))

(* pd.concat(frames, ignore_index=True) *)
Concat(frames) ==
    LET cols == UnionColumns(frames, <<>>)
        all == Flatten([k \in 1..Len(frames) |-> frames[k].rows])
    IN  DataFrame(cols,
                  [k \in 1..Len(all) |->
                      [c \in Range(cols) |->
                          IF c \in DOMAIN all[k] THEN all[k][c] ELSE NaN]])

-----------------------------------------------------------------------------
(* _get_events_from_oddsshark *)

PerSelectorLimit == 5

TotalEventLimit == 10

EventTextLimit == 100

MinTextLen == 5

NumSelectors == 7

Separators == {"/", "-"}

(* placements <<start, day digits, month digits, year digits>> at which
   \d{1,2}[/-]\d{1,2}[/-]\d{2,4} matches inside s *)
DateMatches(s) ==
    {m \in (1..Len(s)) \X {1, 2} \X {1, 2} \X {2, 3, 4} :
        LET i == m[1]
            j == m[1] + m[2]
            k == m[1] + m[2] + 1 + m[3]
        IN  /\ k + m[4] <= Len(s)
            /\ AllDigits(s, i, j - 1)
            /\ CharAt(s, j) \in Separators
            /\ AllDigits(s, j + 1, k - 1)
            /\ CharAt(s, k) \in Separators
            /\ AllDigits(s, k + 1, k + m[4])}

(* leftmost match, each quantifier greedy in turn *)
Preferred(m, n) ==
    \/ m[1] < n[1]
    \/ m[1] = n[1] /\ m[2] > n[2]
    \/ m[1] = n[1] /\ m[2] = n[2] /\ m[3] > n[3]
    \/ m[1] = n[1] /\ m[2] = n[2] /\ m[3] = n[3] /\ m[4] >= n[4]

(* re.search(...).group(1), or "" when there is no match *)
DateSearch(s) ==
    LET ms == DateMatches(s)
    IN  IF ms = {}
        THEN ""
        ELSE LET m == CHOOSE x \in ms : \A y \in ms : Preferred(x, y)
             IN  SubSeq(s, m[1], m[1] + m[2] + m[3] + m[4] + 1)

(* datetime.datetime.now().strftime('%d %b %y') *)
TodayStr == "02 Nov 26"

TextQualifies(text) ==
    /\ text # ""
    /\ ContainsUfcLower(text)
    /\ Len(text) > MinTextLen

(* variant: discovered events carry a page address *)
EventUrl_Page(n) == "https://www.oddsshark.com/ufc/" \o IntToStr(n)

EventUrl(n) == SyntheticPrefix \o IntToStr(n)

DiscoveredEvent(text, n) ==
    LET date_match == DateSearch(text)
    IN  [Date |-> IF date_match # "" THEN date_match ELSE TodayStr,
         Event |-> SliceTo(text, EventTextLimit),
         url |-> EventUrl(n)]

(* the loop over elements[:5] of one selector, from element k on *)
RECURSIVE ScanElements(_, _, _)
ScanElements(elements, k, events) ==
    IF k > Min(PerSelectorLimit, Len(elements))
    THEN events
    ELSE IF TextQualifies(elements[k])
         THEN LET events2 == Append(events,
                                    DiscoveredEvent(elements[k], Len(events)))
              IN  IF Len(events2) >= TotalEventLimit
                  THEN events2
                  ELSE ScanElements(elements, k + 1, events2)
         ELSE ScanElements(elements, k + 1, events)

(* the loop over the selectors, from selector s on *)
RECURSIVE ScanSelectors(_, _, _)
ScanSelectors(selected, s, events) ==
    IF s > Len(selected)
    THEN events
    ELSE LET events2 == ScanElements(selected[s], 1, events)
         IN  IF Len(events2) >= TotalEventLimit
             THEN events2
             ELSE ScanSelectors(selected, s + 1, events2)

(* resp.ok = FALSE: the fetch or the parse raised; resp.selected[s] is the
   list of element texts soup.select returns for the s-th selector *)
GetEventsFromOddsshark(resp) ==
    IF ~resp.ok THEN <<>> ELSE ScanSelectors(resp.selected, 1, <<>>)

-----------------------------------------------------------------------------
(* get_individual_event_urls *)

SampleEvents ==
    << [Date |-> "19 Jul 25",
        Event |-> "UFC 304: Edwards vs Muhammad 2",
        url |-> "oddsshark_sample_1"],
       [Date |-> "27 Jul 25",
        Event |-> "UFC Fight Night: Sandhagen vs Nurmagomedov",
        url |-> "oddsshark_sample_2"] >>

EventLinkColumns == <<"Date", "Event", "url">>

(* variant: no sample events are substituted *)
EventsOrSample_NoFallback(events) == events

EventsOrSample(events) == IF events = <<>> THEN SampleEvents ELSE events

EventLinksFrame(events) ==
    DataFrame(IF events = <<>> THEN <<>> ELSE EventLinkColumns, events)

-----------------------------------------------------------------------------
(* scrape_all_event_odds *)

TestEventLimit == 2

FixedColumns == <<"link", "date", "event", "fighter1", "fighter2",
                  "fighter1_odds", "fighter2_odds", "result", "timestamp">>

(* if self.odds_api_key: *)
KeyConfigured(key) == ~IsNone(key) /\ key.s # ""

(* variant: the limit is compared with > instead of >= *)
LoopLimitReached_OffByOne(tst, i) == tst /\ i > TestEventLimit

(* if self.test and i >= 2: break   (i is the 0-based row label) *)
LoopLimitReached(tst, i) == tst /\ i >= TestEventLimit

(* variant: the frame is staged in front *)
AppendResult_Front(staged, frame) == <<frame>> \o staged

(* scraped_results.append(frame) *)
AppendResult(staged, frame) == Append(staged, frame)

(* variant: the except branch leaves the loop *)
NextAfterException_Break(i, n) == n

(* except Exception: ... continue *)
NextAfterException(i, n) == i + 1

NoResponse == [ok |-> FALSE]

ApiCall(ret) == [fn |-> "_scrape_from_odds_api", ret |-> ret]

(* error: the iteration ended in the except branch of the loop body *)
PageCall(i, url, r, error) ==
    [fn |-> "_scrape_event_odds_page", i |-> i, url |-> url,
     fetched |-> r.fetched, ret |-> r.ret, error |-> error]

(* the for loop over event_links.iterrows(), from row label i on;
   st is [staged |-> scraped_results, calls |-> the adapter invocations];
   pageResp[k] is the response to the fetch for the k-th event, sleepRaises
   the events after whose scrape utils.sleep_randomly raises *)
RECURSIVE EventLoop(_, _, _, _, _, _)
EventLoop(i, st, links, tst, pageResp, sleepRaises) ==
    IF i >= Len(links.rows) \/ LoopLimitReached(tst, i)
    THEN st
    ELSE LET row == links.rows[i + 1]
             r == ScrapeEventOddsPage(row.url,
                      IF i + 1 \in DOMAIN pageResp THEN pageResp[i + 1]
                                                   ELSE NoResponse)
             results == r.ret
             staged2 ==
                 IF ~IsNone(results) /\ Len(results.rows) > 0
                 THEN AppendResult(st.staged,
                          SetColumn(SetColumn(results, "link", row.url),
                                    "date", row.Date))
                 ELSE st.staged
             st2 == [staged |-> staged2,
                     calls |-> Append(st.calls,
                                     PageCall(i, row.url, r, i + 1 \in sleepRaises))]
         IN  EventLoop(IF i + 1 \in sleepRaises
                       THEN NextAfterException(i, Len(links.rows))
                       ELSE i + 1,
                       st2, links, tst, pageResp, sleepRaises)

ApiStage(key, apiResp) ==
    IF KeyConfigured(key)
    THEN LET api_results == ScrapeFromOddsApi(apiResp)
         IN  [staged |-> IF ~IsNone(api_results)
                         THEN AppendResult(<<>>, api_results) ELSE <<>>,
              calls |-> <<ApiCall(api_results)>>]
    ELSE [staged |-> <<>>, calls |-> <<>>]

AggregatedOdds(scraped_results, now) ==
    IF scraped_results # <<>>
    THEN SetColumn(Concat(scraped_results), "timestamp", now)
    ELSE DataFrame(FixedColumns, <<>>)

NoEvents(links) == IsNone(links) \/ Len(links.rows) = 0

-----------------------------------------------------------------------------
(* bounds of the checked inputs *)

MaxHitSelectors == 2

MaxSleepRaises == 1

MaxEvents == 3

MaxApiEvents == 3

MaxMarkets == 2

MaxOutcomes == 3

MaxCells == 3

MaxRows == 2

-----------------------------------------------------------------------------
(* inputs: the listings page *)

TextUfc == "UFC 304 Edwards"

TextDated == "UFC 12/07/25 Card"

TextLower == "ufc night 1-2-2025"

TextOther == "Boxing Night"

TextShort == "UFC 3"

TextLong ==
    "UFC Fight Night main card and preliminary card with full odds for every bout on 123/4/56 and much more text"

ElemLists ==
    { <<TextUfc>>,
      <<TextOther, TextDated>>,
      <<"", TextShort, TextLower>>,
      <<TextLong>>,
      <<TextDated, TextUfc, TextDated, TextUfc, TextDated, TextUfc>> }

SelectedLists ==
    UNION { { [s \in 1..NumSelectors |-> IF s \in H THEN g[s] ELSE <<>>] :
                g \in [H -> ElemLists] } :
            H \in {X \in SUBSET (1..NumSelectors) :
                     Cardinality(X) <= MaxHitSelectors} }

OddssharkResponses ==
    {[ok |-> FALSE]} \cup {[ok |-> TRUE, selected |-> sel] : sel \in SelectedLists}

-----------------------------------------------------------------------------
(* inputs: the odds API payload *)

OutcomeA == [name |-> "Fighter A", price |-> 150]

OutcomeB == [name |-> "Fighter B", price |-> 240]

OutcomeNoPrice == [name |-> "Fighter C"]

OutcomeNullPrice == [name |-> "Fighter D", price |-> null]

OutcomeNoName == [price |-> 310]

Outcomes == {OutcomeA, OutcomeB, OutcomeNoPrice, OutcomeNullPrice, OutcomeNoName}

Market(key, outcomes) == [key |-> key, outcomes |-> outcomes]

MarketsRich ==
    {Market(H2HKey, os) : os \in SeqsUpTo(Outcomes, MaxOutcomes)}

MarketsSmall ==
    { Market(H2HKey, <<OutcomeA, OutcomeB>>),
      Market(H2HKey, <<OutcomeB, OutcomeNoPrice>>),
      Market("spreads", <<OutcomeA, OutcomeB>>),
      Market(H2HKey, <<OutcomeA>>),
      [key |-> H2HKey],
      [outcomes |-> <<OutcomeA, OutcomeB>>] }

BookmakersSmall ==
    {[markets |-> ms] : ms \in SeqsUpTo(MarketsSmall, MaxMarkets)}
        \cup {[title |-> "no markets"]}

BookmakersRich == {[markets |-> <<m>>] : m \in MarketsRich}

OtherBookmakers ==
    { [markets |-> <<Market(H2HKey, <<OutcomeB, OutcomeA>>)>>],
      [markets |-> <<>>] }

BookmakerLists ==
    {<<>>} \cup {<<b>> : b \in BookmakersSmall \cup BookmakersRich}
           \cup {<<b, c>> : b \in BookmakersSmall, c \in OtherBookmakers}

ApiEvent(id, bookmakers) ==
    [id |-> id, sport_title |-> "MMA", commence_time |-> "2025-07-19T22:00:00Z",
     bookmakers |-> bookmakers]

GoodBookmakers == <<[markets |-> <<Market(H2HKey, <<OutcomeA, OutcomeB>>)>>]>>

ApiEventsRich ==
    {ApiEvent("e1", bl) : bl \in BookmakerLists}
        \cup { [id |-> "e2", sport_title |-> "MMA", commence_time |-> "2025-07-19"],
               [sport_title |-> "MMA", commence_time |-> "", bookmakers |-> GoodBookmakers],
               [id |-> "e3", bookmakers |-> GoodBookmakers] }

ApiEventsSmall ==
    { ApiEvent("e1", GoodBookmakers),
      ApiEvent("e4", <<[markets |-> <<Market(H2HKey, <<OutcomeB, OutcomeNoPrice>>)>>],
                       [markets |-> <<Market(H2HKey, <<OutcomeA, OutcomeB>>)>>]>>),
      [id |-> "e2", sport_title |-> "MMA", commence_time |-> "2025-07-19"],
      ApiEvent("e5", <<[markets |-> <<Market("spreads", <<OutcomeA, OutcomeB>>)>>]>>),
      ApiEvent("e6", <<[markets |-> <<Market(H2HKey, <<OutcomeA>>)>>]>>) }

Payloads ==
    {<<e>> : e \in ApiEventsRich} \cup SeqsUpTo(ApiEventsSmall, MaxApiEvents)

ApiResponses == {[ok |-> FALSE]} \cup {[ok |-> TRUE, data |-> d] : d \in Payloads}

ApiResponsesSmall ==
    { [ok |-> FALSE],
      [ok |-> TRUE, data |-> <<ApiEvent("e1", GoodBookmakers)>>],
      [ok |-> TRUE,
       data |-> <<ApiEvent("e6", <<[markets |-> <<Market(H2HKey, <<OutcomeA>>)>>]>>),
                  ApiEvent("e7", <<[markets |->
                      <<Market(H2HKey, <<OutcomeB, OutcomeA>>),
                        Market(H2HKey, <<OutcomeA, OutcomeNoPrice>>)>>]>>)>>] }

-----------------------------------------------------------------------------
(* inputs: an event page *)

CellTexts == {"1.0", "2.5", "1.00", "1.85", "abc", "3."}

PageRow(links, cells) == [links |-> links, cells |-> cells]

RowsRich ==
    {PageRow(<<"Red Corner", "Blue Corner">>, cs) : cs \in SeqsUpTo(CellTexts, MaxCells)}

RowsSmall ==
    { PageRow(<<"Red Corner", "Blue Corner">>, <<"1.85", "abc", "2.05">>),
      PageRow(<<"Alpha", "Beta", "Gamma">>, <<"abc">>),
      PageRow(<<"Solo">>, <<"1.50", "2.50">>),
      PageRow(<<>>, <<>>) }

Soup(h1, tr, div) == [h1 |-> h1, tr |-> tr, div |-> div]

Soups ==
    {Soup(h, <<r>>, <<>>) : h \in {<<>>, <<"UFC 300">>}, r \in RowsRich}
        \cup {Soup(<<"UFC 300">>, t, d) :
                t \in SeqsUpTo(RowsSmall, MaxRows),
                d \in {<<>>, <<PageRow(<<"Div One", "Div Two">>, <<"3.10">>)>>}}

PageResponses == {[ok |-> FALSE]} \cup {[ok |-> TRUE, soup |-> sp] : sp \in Soups}

PageResponsesSmall ==
    { [ok |-> FALSE],
      [ok |-> TRUE,
       soup |-> Soup(<<"UFC 300">>,
                     <<PageRow(<<"Red Corner", "Blue Corner">>, <<"1.85", "2.05">>),
                       PageRow(<<"Alpha", "Beta">>, <<"abc">>)>>,
                     <<>>)] }

RealUrls == {"https://www.bestfightodds.com/events/ufc-300",
             "https://www.bestfightodds.com/events/ufc-301"}

-----------------------------------------------------------------------------
(* inputs: a discovery result handed to the aggregator *)

EventUniverse ==
    { SampleEvents[1],
      [Date |-> "13 Apr 24", Event |-> "UFC 300",
       url |-> "https://www.bestfightodds.com/events/ufc-300"],
      [Date |-> "04 May 24", Event |-> "UFC 301",
       url |-> "https://www.bestfightodds.com/events/ufc-301"] }

EventLinkInputs ==
    {None} \cup {EventLinksFrame(es) : es \in SeqsUpTo(EventUniverse, MaxEvents)}

ApiKeys == {None, Str(""), Str("secret")}

StartTime == 1

-----------------------------------------------------------------------------
(* operations *)

DiscoveryCall(resp, ret) ==
    [fn |-> "_get_events_from_oddsshark", ok |-> resp.ok, ret |-> ret]

(* get_individual_event_urls, with the primary source's response *)
GetIndividualEventUrls(resp) ==
    LET events == GetEventsFromOddsshark(resp)
    IN  /\ event_links' = EventLinksFrame(EventsOrSample(events))
        /\ calls' = Append(calls, DiscoveryCall(resp, events))
        /\ UNCHANGED <<test, odds_api_key, curr_time, event_odds, csv_file,
                       inp, out>>

NeedsFetch(links) ==
    IF NoEvents(links)
    THEN {}
    ELSE {k \in 1..Len(links.rows) : ~StartsWith(links.rows[k].url, SyntheticPrefix)}

SleepRaiseSets(links) ==
    IF NoEvents(links)
    THEN {{}}
    ELSE {X \in SUBSET (1..Len(links.rows)) : Cardinality(X) <= MaxSleepRaises}

(* scrape_all_event_odds, with the API's response, the response of each
   fetched event page and the iterations in which sleep_randomly raises *)
ScrapeAllEventOdds(apiResp, pageResp, sleepRaises) ==
    /\ IF NoEvents(event_links)
       THEN UNCHANGED <<event_odds, calls>>
       ELSE LET st == EventLoop(0, ApiStage(odds_api_key, apiResp),
                                event_links, test, pageResp, sleepRaises)
            IN  /\ event_odds' = AggregatedOdds(st.staged, curr_time)
                /\ calls' = calls \o st.calls
    /\ UNCHANGED <<test, odds_api_key, curr_time, event_links, csv_file, inp, out>>

(* write_data *)
WriteData ==
    /\ csv_file' = IF ~IsNone(event_odds)
                   THEN [tag |-> "csv", header |-> event_odds.columns,
                         records |-> event_odds.rows]
                   ELSE csv_file
    /\ UNCHANGED <<test, odds_api_key, curr_time, event_links, event_odds, calls,
                   inp, out>>

(* the steps of the command-line driver *)
MainDiscover ==
    /\ pc = "discover"
    /\ \E resp \in OddssharkResponses : GetIndividualEventUrls(resp)
    /\ pc' = "scrape"

MainScrape ==
    /\ pc = "scrape"
    /\ \E apiResp \in IF KeyConfigured(odds_api_key) THEN ApiResponsesSmall
                                                      ELSE {NoResponse} :
       \E pageResp \in [NeedsFetch(event_links) -> PageResponsesSmall] :
       \E sleepRaises \in SleepRaiseSets(event_links) :
           ScrapeAllEventOdds(apiResp, pageResp, sleepRaises)
    /\ pc' = "write"

MainWrite ==
    /\ pc = "write"
    /\ WriteData
    /\ pc' = "done"

(* OddsScraperAlt(test, odds_api_key) *)
Constructed ==
    /\ test \in BOOLEAN
    /\ odds_api_key \in ApiKeys
    /\ curr_time = StartTime
    /\ event_odds = None
    /\ csv_file = None
    /\ calls = <<>>
    /\ inp = None
    /\ out = None

Init ==
    /\ Constructed
    /\ event_links = None
    /\ pc = "discover"

Next == MainDiscover \/ MainScrape \/ MainWrite

Spec == Init /\ [][Next]_vars

(* the aggregator and the writer run on a given discovery result *)
InitAgg ==
    /\ Constructed
    /\ event_links \in EventLinkInputs
    /\ pc = "scrape"

NextAgg == MainScrape \/ MainWrite

SpecAgg == InitAgg /\ [][NextAgg]_vars

(* one adapter applied to one response *)
AdapterInputs ==
    {[kind |-> "api", resp |-> r] : r \in ApiResponses}
        \cup {[kind |-> "page", url |-> u, resp |-> r] :
                u \in RealUrls \cup {SampleEvents[1].url}, r \in PageResponses}

ApplyOddsApi ==
    /\ pc = "adapter"
    /\ inp.kind = "api"
    /\ out' = [tag |-> "result", ret |-> ScrapeFromOddsApi(inp.resp)]
    /\ pc' = "returned"
    /\ UNCHANGED <<test, odds_api_key, curr_time, event_links, event_odds,
                   csv_file, calls, inp>>

ApplyEventPage ==
    /\ pc = "adapter"
    /\ inp.kind = "page"
    /\ LET r == ScrapeEventOddsPage(inp.url, inp.resp)
       IN  out' = [tag |-> "result", ret |-> r.ret, fetched |-> r.fetched]
    /\ pc' = "returned"
    /\ UNCHANGED <<test, odds_api_key, curr_time, event_links, event_odds,
                   csv_file, calls, inp>>

InitAdapters ==
    /\ test = FALSE
    /\ odds_api_key = None
    /\ curr_time = StartTime
    /\ event_links = None
    /\ event_odds = None
    /\ csv_file = None
    /\ calls = <<>>
    /\ inp \in AdapterInputs
    /\ out = None
    /\ pc = "adapter"

NextAdapters == ApplyOddsApi \/ ApplyEventPage

SpecAdapters == InitAdapters /\ [][NextAdapters]_vars

-----------------------------------------------------------------------------
(* properties *)

AfterDiscovery == pc \in {"scrape", "write", "done"} /\ calls # <<>>
                    /\ calls[1].fn = "_get_events_from_oddsshark"

AfterScrape == pc \in {"write", "done"}

IsApiCall(c) == c.fn = "_scrape_from_odds_api"

IsPageCall(c) == c.fn = "_scrape_event_odds_page"

ApiCalls == SelectSeq(calls, IsApiCall)

PageCalls == SelectSeq(calls, IsPageCall)

ReturnedRows(c) == IF IsNone(c.ret) THEN <<>> ELSE c.ret.rows

Core(row) == [c \in Range(PageColumns) |-> row[c]]

CoreRows(rws) == [k \in 1..Len(rws) |-> Core(rws[k])]

FixedColumnSet == {"link", "date", "event", "fighter1", "fighter2",
                   "fighter1_odds", "fighter2_odds", "result", "timestamp"}

(* C1: after every run of scrape_all_event_odds the table event_odds is
   present and has exactly the nine fixed columns, in every row as well,
   whatever the events, the key and the sources' outcomes were *)
C1_FixedColumnSet ==
    AfterScrape =>
        /\ ~IsNone(event_odds)
        /\ Range(event_odds.columns) = FixedColumnSet
        /\ Len(event_odds.columns) = Cardinality(FixedColumnSet)
        /\ \A k \in 1..Len(event_odds.rows) :
               DOMAIN event_odds.rows[k] = FixedColumnSet

(* C2: after discovery event_links is never empty; when the primary source
   failed or found no event it is exactly the two sample events in order,
   and when the primary source found events it is exactly those events *)
C2_DiscoveryFallback ==
    AfterDiscovery =>
        /\ ~IsNone(event_links)
        /\ Len(event_links.rows) > 0
        /\ (~calls[1].ok => calls[1].ret = <<>>)
        /\ (calls[1].ret = <<>> =>
               event_links.rows =
                   << [Date |-> "19 Jul 25",
                       Event |-> "UFC 304: Edwards vs Muhammad 2",
                       url |-> "oddsshark_sample_1"],
                      [Date |-> "27 Jul 25",
                       Event |-> "UFC Fight Night: Sandhagen vs Nurmagomedov",
                       url |-> "oddsshark_sample_2"] >>)
        /\ (calls[1].ret # <<>> => event_links.rows = calls[1].ret)

C2_Witness ==
    /\ AfterDiscovery
    /\ calls[1].ok
    /\ calls[1].ret = <<>>
    /\ Len(event_links.rows) = 2
    /\ event_links.rows[2].url = "oddsshark_sample_2"

PageRowsOf(i) ==
    Flatten([k \in 1..Len(PageCalls) |->
                IF PageCalls[k].i = i THEN ReturnedRows(PageCalls[k]) ELSE <<>>])

(* C3: the rows of the aggregated table are the rows the API adapter
   returned, then the rows the page adapter returned for the first event,
   then those for the second event, and so on, each group in the order in
   which the adapter returned it *)
C3_RowOrder ==
    (AfterScrape /\ ~NoEvents(event_links)) =>
        CoreRows(event_odds.rows) =
            CoreRows(Flatten([k \in 1..Len(ApiCalls) |-> ReturnedRows(ApiCalls[k])]))
              \o Flatten([i \in 1..Len(event_links.rows) |-> PageRowsOf(i - 1)])

C3_Witness ==
    /\ AfterScrape
    /\ Len(ApiCalls) = 1
    /\ Len(ReturnedRows(ApiCalls[1])) = 2
    /\ Len(PageCalls) = 3
    /\ PageCalls[1].fetched /\ Len(ReturnedRows(PageCalls[1])) = 2
    /\ ~PageCalls[2].fetched
    /\ PageCalls[3].fetched /\ Len(ReturnedRows(PageCalls[3])) = 2
    /\ PageCalls[1].url # PageCalls[3].url
    /\ Len(event_odds.rows) = 10

(* C4: in test mode the page adapter is invoked for the first two events of
   event_links, in order, and for no other; otherwise it is invoked once
   for every event of event_links, in order *)
C4_TestModeLimit ==
    (AfterScrape /\ ~NoEvents(event_links)) =>
        LET urls == [k \in 1..Len(event_links.rows) |-> event_links.rows[k].url]
            invoked == [k \in 1..Len(PageCalls) |-> PageCalls[k].url]
        IN  /\ test => /\ Len(invoked) <= 2
                       /\ invoked = SubSeq(urls, 1, Min(2, Len(urls)))
            /\ ~test => invoked = urls

C4_Witness ==
    /\ AfterScrape
    /\ test
    /\ ~IsNone(event_links)
    /\ Len(event_links.rows) = 3
    /\ Len(PageCalls) = 2
    /\ PageCalls[2].url = event_links.rows[2].url

Returned(kind) == pc = "returned" /\ inp.kind = kind

ListedMarkets(e) ==
    IF "bookmakers" \in DOMAIN e /\ Len(e.bookmakers) >= 1
    THEN IF "markets" \in DOMAIN e.bookmakers[1] THEN e.bookmakers[1].markets
                                                 ELSE <<>>
    ELSE <<>>

IsHeadToHead(m) ==
    /\ "key" \in DOMAIN m
    /\ m.key = "h2h"
    /\ "outcomes" \in DOMAIN m
    /\ Len(m.outcomes) >= 2

ExpectedMarkets(data) ==
    Flatten([k \in 1..Len(data) |-> SelectSeq(ListedMarkets(data[k]), IsHeadToHead)])

ApiRecords == IF IsNone(out.ret) THEN <<>> ELSE out.ret.rows

FromOutcome(name, price, o) ==
    /\ "name" \in DOMAIN o => name = o.name
    /\ "price" \in DOMAIN o => price = o.price

(* C5: the API adapter emits one record for each head-to-head market with at
   least two outcomes of the first bookmaker of each event, in payload order,
   with fighter1 and its odds from the market's first outcome and fighter2
   and its odds from the second; other bookmakers and events without such a
   market contribute nothing and do not suppress the other events' records *)
C5_FirstBookmakerRecords ==
    (Returned("api") /\ inp.resp.ok) =>
        LET ms == ExpectedMarkets(inp.resp.data)
        IN  /\ Len(ApiRecords) = Len(ms)
            /\ \A k \in 1..Len(ms) :
                   /\ k <= Len(ApiRecords)
                   /\ FromOutcome(ApiRecords[k].fighter1,
                                  ApiRecords[k].fighter1_odds, ms[k].outcomes[1])
                   /\ FromOutcome(ApiRecords[k].fighter2,
                                  ApiRecords[k].fighter2_odds, ms[k].outcomes[2])

C5_Witness ==
    /\ Returned("api")
    /\ inp.resp.ok
    /\ Len(inp.resp.data) = 3
    /\ ListedMarkets(inp.resp.data[1]) = <<>>
    /\ "bookmakers" \in DOMAIN inp.resp.data[2]
    /\ Len(inp.resp.data[2].bookmakers) = 2
    /\ Len(ExpectedMarkets(<<inp.resp.data[3]>>)) = 1
    /\ Len(ApiRecords) = 2
    /\ ApiRecords[1].fighter1 = "Fighter B"

NoPrice(o) == "price" \notin DOMAIN o \/ o.price = null

SingleRowPage ==
    /\ Returned("page")
    /\ out.fetched
    /\ inp.resp.ok
    /\ Len(inp.resp.soup.tr) = 1
    /\ Len(inp.resp.soup.tr[1].links) >= 2
    /\ ~IsNone(out.ret)

DecimalCells(row) == SelectSeq(row.cells, IsDecimalText)

(* C6: a record carries exactly 1.0 as the odds of a fighter for whom the
   source gave no price: an API outcome whose price is missing or null, a
   scraped row with no decimal cell for that fighter *)
C6_DefaultOdds ==
    /\ (Returned("api") /\ inp.resp.ok) =>
           LET ms == ExpectedMarkets(inp.resp.data)
           IN  \A k \in 1..Min(Len(ms), Len(ApiRecords)) :
                   /\ NoPrice(ms[k].outcomes[1]) => ApiRecords[k].fighter1_odds = 100
                   /\ NoPrice(ms[k].outcomes[2]) => ApiRecords[k].fighter2_odds = 100
    /\ SingleRowPage =>
           LET found == Len(DecimalCells(inp.resp.soup.tr[1]))
           IN  /\ found = 0 => out.ret.rows[1].fighter1_odds = 100
               /\ found <= 1 => out.ret.rows[1].fighter2_odds = 100

(* C7: the columns of the aggregated table, and of the written file, are
   link, date, event, fighter1, fighter2, fighter1_odds, fighter2_odds,
   result, timestamp in this order, whichever sources contributed rows *)
C7_ColumnOrder ==
    (AfterScrape /\ ~IsNone(event_odds)) =>
        /\ event_odds.columns =
               <<"link", "date", "event", "fighter1", "fighter2",
                 "fighter1_odds", "fighter2_odds", "result", "timestamp">>
        /\ pc = "done" => csv_file.header = event_odds.columns

(* C8: in a scraped row fighter1_odds is the value of the first cell that
   matches the decimal pattern and fighter2_odds the value of the second,
   whatever these values are and whatever cells follow *)
C8_PositionalOdds ==
    SingleRowPage =>
        LET found == DecimalCells(inp.resp.soup.tr[1])
        IN  /\ Len(found) >= 1 => out.ret.rows[1].fighter1_odds = ToFloat(found[1])
            /\ Len(found) >= 2 => out.ret.rows[1].fighter2_odds = ToFloat(found[2])

InRange == IF test THEN Min(2, Len(event_links.rows)) ELSE Len(event_links.rows)

Attempts(i) == Cardinality({k \in 1..Len(PageCalls) : PageCalls[k].i = i})

InTable(c, row) ==
    \E q \in 1..Len(event_odds.rows) :
        /\ Core(event_odds.rows[q]) = Core(row)
        /\ IsPageCall(c) => event_odds.rows[q].link = c.url

(* C9: whatever calls fail, the aggregation ends with a table; the API is
   asked at most once, each event in range is attempted exactly once and no
   other event is attempted, and every row an adapter returned is in the
   table (a page row under its event's link) *)
C9_FailuresDoNotAbort ==
    (AfterScrape /\ ~NoEvents(event_links)) =>
        /\ ~IsNone(event_odds)
        /\ Len(ApiCalls) <= 1
        /\ \A i \in 0..(Len(event_links.rows) - 1) :
               Attempts(i) = IF i < InRange THEN 1 ELSE 0
        /\ \A k \in 1..Len(calls) :
               (IsApiCall(calls[k]) \/ IsPageCall(calls[k])) =>
                   \A j \in 1..Len(ReturnedRows(calls[k])) :
                       InTable(calls[k], ReturnedRows(calls[k])[j])

C9_Witness ==
    /\ AfterScrape
    /\ Len(ApiCalls) = 1 /\ IsNone(ApiCalls[1].ret)
    /\ Len(PageCalls) = 3
    /\ PageCalls[1].error
    /\ PageCalls[2].fetched /\ IsNone(PageCalls[2].ret)
    /\ PageCalls[3].fetched /\ ~IsNone(PageCalls[3].ret)
    /\ Len(event_odds.rows) = 6

PageRowCount ==
    Cardinality({q \in 1..Len(event_odds.rows) :
                    StartsWith(event_odds.rows[q].link, "oddsshark_")})

(* C10: every event discovery produces has a locator that begins with
   oddsshark_, so the page adapter never fetches: each processed event
   contributes the same four sample rows, the first being Leon Edwards vs
   Belal Muhammad at 1.85/1.95, and the table holds four page rows for each
   processed event *)
C10_AlwaysSynthetic ==
    /\ AfterDiscovery =>
           \A k \in 1..Len(event_links.rows) :
               StartsWith(event_links.rows[k].url, "oddsshark_")
    /\ (AfterDiscovery /\ AfterScrape) =>
           /\ \A k \in 1..Len(PageCalls) :
                  /\ ~PageCalls[k].fetched
                  /\ Len(ReturnedRows(PageCalls[k])) = 4
                  /\ ReturnedRows(PageCalls[k]) = ReturnedRows(PageCalls[1])
                  /\ ReturnedRows(PageCalls[k])[1].fighter1 = "Leon Edwards"
                  /\ ReturnedRows(PageCalls[k])[1].fighter2 = "Belal Muhammad"
                  /\ ReturnedRows(PageCalls[k])[1].fighter1_odds = 185
                  /\ ReturnedRows(PageCalls[k])[1].fighter2_odds = 195
           /\ PageRowCount = 4 * Len(PageCalls)

C10_Witness ==
    /\ AfterDiscovery
    /\ pc = "done"
    /\ calls[1].ret # <<>>
    /\ ~test
    /\ Len(PageCalls) = 10
    /\ Len(ApiCalls) = 1 /\ ~IsNone(ApiCalls[1].ret)
    /\ PageRowCount = 40

====
